---- MODULE Spec2Model ----
(***************************************************************************)
(* Model of axum-test's IntoTransportLayer adapter for axum::serve::Serve  *)
(* (src/transport_layer/into_transport_layer.rs and                        *)
(*  src/transport_layer/into_transport_layer/serve.rs).                    *)
(*                                                                         *)
(* The state is the set of background serve tasks known to the tokio       *)
(* runtime, the transport values the test driver holds, the result of the  *)
(* last conversion call, and the requests the driver has dispatched.       *)
(***************************************************************************)
EXTENDS Integers, Sequences, FiniteSets, TLC

(* ------------------------------ bounds --------------------------------- *)
NumPorts == 2
\* The transports, tasks and requests of a test run, and of a short session.
MaxSlots == 2
SessionSlots == 1

Ports == 1..NumPorts

(* --------------------------- representations --------------------------- *)
\* The four implementors of IntoTransportLayer (the three modules next to
\* `serve` are declared in into_transport_layer.rs).
Representations ==
    {"Serve", "IntoMakeService", "IntoMakeServiceWithConnectInfo", "Router"}

\* The capability matrix of the specification (section 4.1).
CapabilityMatrix ==
    [rep \in Representations |->
        IF rep = "Serve"
        THEN [real |-> TRUE, mock |-> FALSE, default |-> "http"]
        ELSE [real |-> TRUE, mock |-> TRUE, default |-> "mock"]]

(* ------------------------------ handlers ------------------------------- *)
Digit(d) ==
    CASE d = 0 -> "0" [] d = 1 -> "1" [] d = 2 -> "2" [] d = 3 -> "3"
      [] d = 4 -> "4" [] d = 5 -> "5" [] d = 6 -> "6" [] d = 7 -> "7"
      [] d = 8 -> "8" [] d = 9 -> "9"

RECURSIVE FormatU32(_)
\* `{}` formatting of a u32: its decimal digits, most significant first.
FormatU32(n) ==
    IF n < 10 THEN Digit(n) ELSE FormatU32(n \div 10) \o Digit(n % 10)

\* The value given to `.with_state(..)` in the tests.
StateCount == 123

get_ping_wrong == "pong"
get_ping == "pong!"

get_state(count) == "count is " \o FormatU32(count)

Apps == {"ping", "count"}
\* The requests of the tests; each is unrouted in the other test's app.
Requests ==
    { [method |-> "GET", path |-> "/ping"],
      [method |-> "GET", path |-> "/count"] }

Reply(status, body) == [status |-> status, body |-> body]

\* The routers the tests build: one GET route each; axum answers 405 for a
\* known path with another method and 404 for an unknown path.
Route(app, req) ==
    LET path == IF app = "ping" THEN "/ping" ELSE "/count"
        body == IF app = "ping" THEN get_ping ELSE get_state(StateCount)
    IN  IF req.path # path THEN Reply(404, "")
        ELSE IF req.method # "GET" THEN Reply(405, "")
        ELSE Reply(200, body)

(* ------------------------------ addressing ----------------------------- *)
\* An IP address as std::net prints it: an IPv6 address with a non-zero
\* scope id is printed with a `%<scope>` zone suffix.
IpAddrs ==
    { [family |-> "v4", host |-> "127.0.0.1", scope |-> 0],
      [family |-> "v6", host |-> "fe80::1", scope |-> 3] }

Loopback == [family |-> "v4", host |-> "127.0.0.1", scope |-> 0]

\* TransportLayerBuilder: requested ip and port; port 0 stands for "no port
\* requested" (ephemeral).
Builders == [ip : IpAddrs, port : 0..NumPorts]
NoBuilder == [ip |-> Loopback, port |-> 0]

Ok(v) == [ok |-> TRUE, value |-> v, error |-> <<>>]
Err(e) == [ok |-> FALSE, value |-> <<>>, error |-> e]

\* TransportLayerBuilder::socket_address(): the outcomes it can have when
\* the ports in `inUse` are bound and those in `reserved` were handed out.
socket_address(builder, inUse, reserved) ==
    IF builder.port = 0
    THEN LET free == Ports \ (inUse \cup reserved)
         IN  IF free = {} THEN { Err(<<"no free port">>) }
             ELSE { Ok([ip |-> builder.ip, port |-> p]) : p \in free }
    ELSE { Ok([ip |-> builder.ip, port |-> builder.port]) }
         \cup (IF builder.port \in inUse
               THEN { Err(<<"address in use">>) } ELSE {})

\* format!("http://{socket_addr}") : Display of a SocketAddr.
FormatServerAddress(addr) ==
    IF addr.ip.family = "v4"
    THEN <<"http://", addr.ip.host, ":", addr.port>>
    ELSE IF addr.ip.scope = 0
    THEN <<"http://", "[", addr.ip.host, "]", ":", addr.port>>
    ELSE <<"http://", "[", addr.ip.host, "%", addr.ip.scope, "]", ":", addr.port>>

\* server_address.parse::<Url>() : the url crate accepts an IPv4 host and a
\* bracketed IPv6 host, and rejects an IPv6 host with a zone identifier.
ParseUrl(text) ==
    IF Len(text) = 4
    THEN Ok([scheme |-> "http", host |-> text[2], port |-> text[4]])
    ELSE IF Len(text) = 6
    THEN Ok([scheme |-> "http", host |-> text[3], port |-> text[6]])
    ELSE Err(<<"invalid IPv6 address">>)

NoUrl == [scheme |-> "none", host |-> "", port |-> 0]

(* ------------------------------- state --------------------------------- *)
VARIABLES
    slots,          \* how many transports, tasks and requests the run uses
    tasks,          \* the tasks spawned on the runtime, by task id
    transports,     \* the transport values handed to the test driver
    lastResult,     \* what the last conversion call returned
    requests,       \* the requests the driver dispatched
    sessionFailed   \* the test driver panicked

vars == <<slots, tasks, transports, lastResult, requests, sessionFailed>>

NoTask == [state |-> "unspawned", addr |-> [ip |-> Loopback, port |-> 0],
           app |-> "none", owner |-> 0]
NoTransport == [state |-> "none", kind |-> "none", handle |-> 0,
                url |-> NoUrl, app |-> "none"]
NoResponse == [kind |-> "none", status |-> 0, body |-> "", headers |-> {},
               error |-> ""]
NoRequest == [state |-> "unused", transport |-> 0, req |-> <<>>, conn |-> 0,
              resp |-> NoResponse]
NoResult == [op |-> "none", rep |-> "none", builder |-> NoBuilder,
             ok |-> TRUE, error |-> <<>>, mode |-> "none",
             resolved |-> Ok(<<>>), transport |-> 0, spawned |-> 0]

TransportIds == 1..slots
TaskIds == 1..slots
RequestIds == 1..slots

InitWith(n) ==
    /\ slots = n
    /\ tasks = [t \in TaskIds |-> NoTask]
    /\ transports = [i \in TransportIds |-> NoTransport]
    /\ lastResult = NoResult
    /\ requests = [r \in RequestIds |-> NoRequest]
    /\ sessionFailed = FALSE

Init == InitWith(MaxSlots)
InitSession == InitWith(SessionSlots)

Running == {t \in TaskIds : tasks[t].state = "running"}
\* Ports on which a listener is bound.
BoundPorts == {tasks[t].addr.port : t \in Running}
\* Ports resolved for the transports that are alive.
ReservedPorts ==
    {transports[i].url.port :
        i \in {j \in TransportIds : /\ transports[j].state = "live"
                                    /\ transports[j].kind = "http"}}

FreeTasks == {t \in TaskIds : tasks[t].state = "unspawned"}
FreeTransports == {i \in TransportIds : transports[i].state = "none"}
Least(S) == CHOOSE x \in S : \A y \in S : x <= y

(* --------------------------- the conversions --------------------------- *)
\* What a conversion call leaves behind: the Result it returns, the mode it
\* committed to, and the task it spawned (0: none) with the address that
\* task accepts on.
Outcome(result, mode, spawned, listen) ==
    [result |-> result, mode |-> mode, spawned |-> spawned, listen |-> listen]

HttpTransportLayerNew_detached(server_handle, maybe_connector, url) ==
    [kind |-> "http", handle |-> 0, connector |-> maybe_connector,
     url |-> url, app |-> "none"]

\* HttpTransportLayer::new(server_handle, None, server_url)
HttpTransportLayerNew(server_handle, maybe_connector, url) ==
    [kind |-> "http", handle |-> server_handle,
     connector |-> maybe_connector, url |-> url, app |-> "none"]

MockTransportLayerNew(app) ==
    [kind |-> "mock", handle |-> 0, connector |-> 0, url |-> NoUrl,
     app |-> app]

\* The message of the error Serve answers a mock request with (its
\* backquotes left out), cut at the configuration name it recommends.
ServeMockError ==
    << "Serve cannot be mocked, as it's underlying implementation requires a real connection. ",
       "Set the TestServerConfig to run with a transport of ",
       "HttpIpPort",
       "." >>

\* The transports of TestServerConfig that use a real socket.
RealTransportNames == {"HttpRandomPort", "HttpIpPort"}

Serve_into_http_transport_layer_spawn_first(self, sa, h) ==
    IF ~sa.ok
    THEN Outcome(Err(sa.error), "http", h, self.listener)
    ELSE LET server_url == ParseUrl(FormatServerAddress(sa.value))
         IN  IF ~server_url.ok
             THEN Outcome(Err(server_url.error), "http", h, self.listener)
             ELSE Outcome(Ok(HttpTransportLayerNew(h, 0, server_url.value)),
                          "http", h, self.listener)

\* impl IntoTransportLayer for Serve: into_http_transport_layer.
\* `sa` is what builder.socket_address() returned, `h` the task the runtime
\* spawns. The task awaits `self`, so it accepts on the listener `self` was
\* built with.
Serve_into_http_transport_layer(self, sa, h) ==
    IF ~sa.ok
    THEN Outcome(Err(sa.error), "http", 0, self.listener)
    ELSE LET server_url == ParseUrl(FormatServerAddress(sa.value))
         IN  IF ~server_url.ok
             THEN Outcome(Err(server_url.error), "http", h, self.listener)
             ELSE Outcome(Ok(HttpTransportLayerNew(h, 0, server_url.value)),
                          "http", h, self.listener)

Serve_into_mock_transport_layer_mocked(self) ==
    Outcome(Ok(MockTransportLayerNew(self.app)), "mock", 0, self.listener)

\* impl IntoTransportLayer for Serve: into_mock_transport_layer.
Serve_into_mock_transport_layer(self) ==
    Outcome(Err(ServeMockError), "mock", 0, self.listener)

Serve_into_default_transport_mock(self, sa, h) ==
    Serve_into_mock_transport_layer(self)

\* impl IntoTransportLayer for Serve: into_default_transport.
Serve_into_default_transport(self, sa, h) ==
    Serve_into_http_transport_layer(self, sa, h)

\* The other implementors: the real transport binds the resolved address
\* and serves the handler on it.
Other_into_http_transport_layer(self, sa, inUse, h) ==
    IF ~sa.ok
    THEN Outcome(Err(sa.error), "http", 0, sa.value)
    ELSE IF sa.value.port \in inUse
    THEN Outcome(Err(<<"address in use">>), "http", 0, sa.value)
    ELSE LET server_url == ParseUrl(FormatServerAddress(sa.value))
         IN  IF ~server_url.ok
             THEN Outcome(Err(server_url.error), "http", 0, sa.value)
             ELSE Outcome(Ok(HttpTransportLayerNew(h, 0, server_url.value)),
                          "http", h, sa.value)

\* The other implementors: the mock transport holds the handler.
Other_into_mock_transport_layer(self) ==
    Outcome(Ok(MockTransportLayerNew(self.app)), "mock", 0, self.listener)

into_http_transport_layer(self, sa, inUse, h) ==
    IF self.rep = "Serve"
    THEN Serve_into_http_transport_layer(self, sa, h)
    ELSE Other_into_http_transport_layer(self, sa, inUse, h)

into_mock_transport_layer(self) ==
    IF self.rep = "Serve"
    THEN Serve_into_mock_transport_layer(self)
    ELSE Other_into_mock_transport_layer(self)

\* trait IntoTransportLayer: the provided into_default_transport.
Trait_into_default_transport(self, sa, inUse, h) ==
    into_mock_transport_layer(self)

into_default_transport(self, sa, inUse, h) ==
    IF self.rep = "Serve"
    THEN Serve_into_default_transport(self, sa, h)
    ELSE Trait_into_default_transport(self, sa, inUse, h)

Convert(op, self, sa, inUse, h) ==
    CASE op = "http" -> into_http_transport_layer(self, sa, inUse, h)
      [] op = "mock" -> into_mock_transport_layer(self)
      [] op = "default" -> into_default_transport(self, sa, inUse, h)

\* The servable values a test can hand over. A `Serve` was built by
\* axum::serve from a listener the test bound itself, on a port that was
\* free; the other representations carry no listener.
Servables ==
    [rep : {"Serve"}, app : Apps, listener : Ports \ BoundPorts]
    \cup [rep : Representations \ {"Serve"}, app : Apps, listener : {0}]

ListenAddr(self, out) ==
    IF self.rep = "Serve"
    THEN [ip |-> Loopback, port |-> self.listener]
    ELSE out.listen

(* ------------------------------- actions ------------------------------- *)
\* The driver holds no Result it has not looked at.
Idle == ~sessionFailed /\ lastResult.op = "none"

\* TestServer construction: one call of into_<op>_transport_layer /
\* into_default_transport on `self` with `builder`.
Construct(op, self, builder) ==
    /\ Idle
    /\ FreeTransports # {}
    /\ FreeTasks # {}
    /\ LET h == Least(FreeTasks)
           i == Least(FreeTransports)
           held == IF self.rep = "Serve" THEN {self.listener} ELSE {}
       IN  \E sa \in socket_address(builder, BoundPorts \cup held,
                                    ReservedPorts) :
             LET out == Convert(op, self, sa, BoundPorts, h)
                 layer == out.result.value
             IN  /\ tasks' =
                       IF out.spawned = 0 THEN tasks
                       ELSE [tasks EXCEPT ![h] =
                               [state |-> "running",
                                addr |-> ListenAddr(self, out),
                                app |-> self.app,
                                owner |-> IF out.result.ok THEN i ELSE 0]]
                 /\ transports' =
                       IF ~out.result.ok THEN transports
                       ELSE [transports EXCEPT ![i] =
                               [state |-> "live", kind |-> layer.kind,
                                handle |-> layer.handle,
                                url |-> layer.url, app |-> layer.app]]
                 /\ lastResult' =
                       [op |-> op, rep |-> self.rep, builder |-> builder,
                        ok |-> out.result.ok, error |-> out.result.error,
                        mode |-> out.mode,
                        resolved |-> IF out.mode = "http" THEN sa
                                     ELSE Ok(<<>>),
                        transport |-> IF out.result.ok THEN i ELSE 0,
                        spawned |-> out.spawned]
    /\ UNCHANGED <<slots, requests, sessionFailed>>

IntoHttpTransportLayer ==
    \E self \in Servables, builder \in Builders :
        Construct("http", self, builder)

IntoMockTransportLayer ==
    \E self \in Servables : Construct("mock", self, NoBuilder)

IntoDefaultTransport ==
    \E self \in Servables, builder \in Builders :
        Construct("default", self, builder)

\* The driver takes the Result of the construction:
\* `.expect("Should create test server")` unwraps a transport and panics on
\* an error.
Expect ==
    /\ ~sessionFailed
    /\ lastResult.op # "none"
    /\ IF lastResult.ok
       THEN lastResult' = NoResult /\ UNCHANGED sessionFailed
       ELSE sessionFailed' = TRUE /\ UNCHANGED lastResult
    /\ UNCHANGED <<slots, tasks, transports, requests>>

\* The driver matches on a failed construction and goes on.
HandleError ==
    /\ ~sessionFailed
    /\ lastResult.op # "none"
    /\ ~lastResult.ok
    /\ lastResult' = NoResult
    /\ UNCHANGED <<slots, tasks, transports, requests, sessionFailed>>

\* The mock transport calls the handler in process.
MockDispatch(app, req) ==
    [kind |-> "response", status |-> Route(app, req).status,
     body |-> Route(app, req).body, headers |-> {}, error |-> ""]

\* The real transport sends the request to the base url; the serve task
\* that accepted the connection answers with its handler.
HttpResponse(app, req) ==
    [kind |-> "response", status |-> Route(app, req).status,
     body |-> Route(app, req).body, headers |-> {"date"}, error |-> ""]

ConnectionError(what) ==
    [kind |-> "error", status |-> 0, body |-> "", headers |-> {},
     error |-> what]

\* The requests in flight on the connections task t accepted are cut off.
CutOff(rs, t) ==
    [r \in RequestIds |->
        IF rs[r].state = "pending" /\ rs[r].conn = t
        THEN [rs[r] EXCEPT !.state = "done",
                           !.resp = ConnectionError("connection reset")]
        ELSE rs[r]]

\* A task that ended: its future, and with it the listener, is gone.
Finished(task, how) == [NoTask EXCEPT !.state = how, !.owner = task.owner]

\* Dropping the transport value: HttpTransportLayer aborts the task whose
\* handle it owns.
Drop(i) ==
    /\ Idle
    /\ transports[i].state = "live"
    /\ transports' = [transports EXCEPT ![i].state = "dropped"]
    /\ LET h == transports[i].handle
       IN  IF h # 0 /\ tasks[h].state = "running"
           THEN /\ tasks' = [tasks EXCEPT ![h] = Finished(tasks[h], "aborted")]
                /\ requests' = CutOff(requests, h)
           ELSE UNCHANGED <<tasks, requests>>
    /\ UNCHANGED <<slots, lastResult, sessionFailed>>

\* `self.await` returns an error inside the spawned task: `.expect(..)`
\* panics there, and the runtime keeps the panic in the task's JoinHandle.
ServeFails(t) ==
    /\ Idle
    /\ tasks[t].state = "running"
    /\ tasks' = [tasks EXCEPT ![t] = Finished(tasks[t], "panicked")]
    /\ requests' = CutOff(requests, t)
    /\ UNCHANGED <<slots, transports, lastResult, sessionFailed>>

FreeRequests == {r \in RequestIds : requests[r].state = "unused"}

\* The tasks accepting on the address a url names.
Accepting(url) ==
    {t \in Running : /\ tasks[t].addr.port = url.port
                     /\ tasks[t].addr.ip.host = url.host}

\* The driver dispatches `req` through transport i (through the base url of
\* a transport that was dropped: a stale dispatch).
Dispatch(i, req) ==
    /\ Idle
    /\ FreeRequests # {}
    /\ \/ transports[i].state = "live"
       \/ transports[i].state = "dropped" /\ transports[i].kind = "http"
    /\ LET r == Least(FreeRequests)
           new == [NoRequest EXCEPT !.transport = i, !.req = req]
       IN  IF transports[i].kind = "mock"
           THEN requests' = [requests EXCEPT ![r] =
                    [new EXCEPT !.state = "done",
                                !.resp = MockDispatch(transports[i].app, req)]]
           ELSE IF Accepting(transports[i].url) = {}
           THEN requests' = [requests EXCEPT ![r] =
                    [new EXCEPT !.state = "done",
                                !.resp = ConnectionError("connection refused")]]
           ELSE \E t \in Accepting(transports[i].url) :
                    requests' = [requests EXCEPT ![r] =
                        [new EXCEPT !.state = "pending", !.conn = t]]
    /\ UNCHANGED <<slots, tasks, transports, lastResult, sessionFailed>>

\* The serve task that accepted request r answers it with its handler.
Respond(r) ==
    /\ Idle
    /\ requests[r].state = "pending"
    /\ tasks[requests[r].conn].state = "running"
    /\ requests' = [requests EXCEPT ![r].state = "done",
            ![r].resp = HttpResponse(tasks[requests[r].conn].app,
                                     requests[r].req)]
    /\ UNCHANGED <<slots, tasks, transports, lastResult, sessionFailed>>

Next ==
    \/ IntoHttpTransportLayer
    \/ IntoMockTransportLayer
    \/ IntoDefaultTransport
    \/ Expect
    \/ HandleError
    \/ \E i \in TransportIds : Drop(i)
    \/ \E t \in TaskIds : ServeFails(t)
    \/ \E i \in TransportIds, req \in Requests : Dispatch(i, req)
    \/ \E r \in RequestIds : Respond(r)

Spec == Init /\ [][Next]_vars
SpecSession == InitSession /\ [][Next]_vars

(* ------------------------------ properties ----------------------------- *)
Returned == lastResult.op # "none"
ReturnedBy(ops, rep) ==
    /\ lastResult.op \in ops
    /\ lastResult.rep = rep

LiveHttp ==
    {i \in TransportIds : /\ transports[i].state = "live"
                          /\ transports[i].kind = "http"}
\* The tasks spawned for transport i.
TasksOf(i) == {t \in TaskIds : tasks[t].owner = i}

\* C1: into_mock_transport_layer on a Serve always returns an error, never a
\* transport; the message names a transport that uses a real socket; no
\* serve task is spawned.
C1_ServeMockAlwaysFails ==
    ReturnedBy({"mock"}, "Serve") =>
        /\ ~lastResult.ok
        /\ lastResult.transport = 0
        /\ lastResult.spawned = 0
        /\ \E k \in DOMAIN lastResult.error :
               lastResult.error[k] \in RealTransportNames

C1_Witness ==
    /\ ReturnedBy({"mock"}, "Serve")
    /\ Running = {}

\* C2: into_default_transport commits to the mode the capability matrix
\* gives: on a Serve it is into_http_transport_layer with the same builder
\* (a returned transport is a real one holding the spawned task, at the port
\* the builder fixed), on the others it is into_mock_transport_layer, the
\* builder is ignored and the call succeeds.
C2_DefaultFollowsMatrix ==
    lastResult.op = "default" =>
        /\ lastResult.mode = CapabilityMatrix[lastResult.rep].default
        /\ lastResult.rep = "Serve" /\ lastResult.ok =>
              LET tl == transports[lastResult.transport]
              IN  /\ tl.kind = "http"
                  /\ lastResult.spawned # 0
                  /\ tl.handle = lastResult.spawned
                  /\ lastResult.resolved.ok
                  /\ tl.url.port = lastResult.resolved.value.port
                  /\ lastResult.builder.port # 0 =>
                         tl.url.port = lastResult.builder.port
        /\ lastResult.rep = "Serve" /\ ~lastResult.ok =>
              lastResult.error # ServeMockError
        /\ CapabilityMatrix[lastResult.rep].mock =>
              /\ lastResult.ok
              /\ transports[lastResult.transport].kind = "mock"
              /\ lastResult.spawned = 0

C2_Witness ==
    /\ ReturnedBy({"default"}, "Serve")
    /\ lastResult.ok
    /\ transports[lastResult.transport].kind = "http"

\* The responses the driver got through a real transport from that
\* transport's own serve task, which is still there to compare with.
OwnResponses ==
    {r \in RequestIds :
        /\ requests[r].state = "done"
        /\ requests[r].resp.kind = "response"
        /\ transports[requests[r].transport].kind = "http"
        /\ requests[r].conn = transports[requests[r].transport].handle
        /\ tasks[requests[r].conn].state = "running"}
MockResponses ==
    {r \in RequestIds :
        /\ requests[r].state = "done"
        /\ transports[requests[r].transport].kind = "mock"}
Ping == [method |-> "GET", path |-> "/ping"]
Count == [method |-> "GET", path |-> "/count"]

C4_UrlIsListeningSocket ==
    ReturnedBy({"http", "default"}, "Serve") /\ lastResult.ok =>
        LET tl == transports[lastResult.transport]
            task == tasks[lastResult.spawned]
        IN  /\ task.state = "running"
            /\ tl.url.scheme = "http"
            /\ tl.url.host = task.addr.ip.host
            /\ tl.url.port = task.addr.port

\* C5: once a real transport is dropped its serve task is gone and stays
\* gone, no request waits on a task that is gone, and a dispatch to the
\* dropped transport's url is never accepted by its task: it ends at once
\* with a connection error when nothing else listens there.
C5_Dropped ==
    \A i \in TransportIds :
        transports[i].state = "dropped" /\ transports[i].kind = "http" =>
            \A t \in TasksOf(i) : tasks[t].state # "running"
C5_NoHang ==
    \A r \in RequestIds :
        requests[r].state = "pending" =>
            tasks[requests[r].conn].state = "running"
C5_StaleDispatch ==
    \A i \in TransportIds, r \in RequestIds :
        /\ transports[i].state = "dropped"
        /\ transports[i].kind = "http"
        /\ requests[r].state = "unused"
        /\ requests'[r].state # "unused"
        /\ requests'[r].transport = i
        => /\ requests'[r].conn \notin TasksOf(i)
           /\ Accepting(transports[i].url) = {} =>
                 /\ requests'[r].state = "done"
                 /\ requests'[r].resp.kind = "error"
C5_DropEndsServing ==
    /\ [](C5_Dropped /\ C5_NoHang)
    /\ [][C5_StaleDispatch]_vars

C5_Witness ==
    \E i \in TransportIds, r \in RequestIds :
        /\ transports[i].state = "dropped"
        /\ transports[i].kind = "http"
        /\ \E t \in TasksOf(i) : tasks[t].state = "aborted"
        /\ requests[r].transport = i
        /\ requests[r].state = "done"
        /\ requests[r].resp = ConnectionError("connection refused")

\* C6: a serve task that failed after its transport was handed back has
\* made the test session fail.
C6_ServeFailureSurfaces ==
    \A t \in TaskIds : tasks[t].state = "panicked" => sessionFailed

\* C7: a real transport built with ephemeral-port addressing while another
\* real transport is alive has a base url with another port than that one,
\* and a request to its base url is accepted by its own serve task.
C7_EphemeralDistinctReachable ==
    /\ Returned
    /\ lastResult.ok
    /\ lastResult.mode = "http"
    /\ lastResult.builder.port = 0
    /\ LiveHttp \ {lastResult.transport} # {}
    => LET tl == transports[lastResult.transport]
       IN  /\ \A j \in LiveHttp \ {lastResult.transport} :
                 transports[j].url.port # tl.url.port
           /\ Accepting(tl.url) = {tl.handle}

\* C8: when builder.socket_address() fails, into_http_transport_layer of a
\* Serve returns that error as it is, no transport, and has spawned no task.
C8_AddressErrorBeforeSpawn ==
    ReturnedBy({"http", "default"}, "Serve") /\ ~lastResult.resolved.ok =>
        /\ ~lastResult.ok
        /\ lastResult.error = lastResult.resolved.error
        /\ lastResult.transport = 0
        /\ lastResult.spawned = 0

C8_Witness ==
    /\ ReturnedBy({"http"}, "Serve")
    /\ ~lastResult.resolved.ok
    /\ ~lastResult.ok

\* C9: of the dispatches in flight together on one real transport whose
\* serve task is running, each is accepted by that task and gets its own
\* response from it.
C9_ConcurrentDispatch ==
    \A i \in LiveHttp : \A r1, r2 \in RequestIds :
        /\ r1 # r2
        /\ requests[r1].state # "unused" /\ requests[r1].transport = i
        /\ requests[r2].state # "unused" /\ requests[r2].transport = i
        /\ \E t \in TasksOf(i) : tasks[t].state = "running"
        => /\ requests[r1].conn \in TasksOf(i)
           /\ requests[r1].state = "done" =>
                 requests[r1].resp =
                     HttpResponse(tasks[requests[r1].conn].app,
                                  requests[r1].req)

====
